---- MODULE Spec2Model ----
(***************************************************************************)
(* cargo-features-manager: the per-dependency feature graph (crates.rs),   *)
(* the manifest writer (document.rs) and the pruner (prune.rs).            *)
(***************************************************************************)
EXTENDS Integers, Sequences, FiniteSets, TLC

(***************************************************************************)
(* Bounds and name universes                                               *)
(***************************************************************************)

\* longest implies list (and default list) of a drawn registry version
MaxSubs == 1

\* longest requested feature list of a manifest entry
MaxRequested == 1

\* longest search text typed in the editor
MaxSearch == 2

\* local feature names a registry version may declare
FeatureNames == {"a", "b", "c"}

\* entries with cross-package syntax ("dep/feature", "dep:name")
CrossRefs == {"d/x"}

\* dependency names of the manifest, in manifest order
DepNames == <<"D1", "D2">>

\* String ordering of Rust's partial_cmp on the names used here
NameRank(n) ==
    CASE n = "a" -> 1
      [] n = "b" -> 2
      [] n = "c" -> 3
      [] n = "d/x" -> 4
      [] n = "default" -> 5
      [] OTHER -> 6

(***************************************************************************)
(* Sequence helpers                                                        *)
(***************************************************************************)

Range(s) == {s[i] : i \in DOMAIN s}

Contains(s, x) == \E i \in DOMAIN s : s[i] = x

RECURSIVE SeqOfSet(_)
\* the elements of a set of names as a list in string order
SeqOfSet(S) ==
    IF S = {} THEN <<>>
    ELSE LET m == CHOOSE x \in S : \A y \in S : NameRank(x) <= NameRank(y)
         IN <<m>> \o SeqOfSet(S \ {m})

\* the lists over S of at most n distinct entries
Lists(S, n) == {SeqOfSet(T) : T \in {U \in SUBSET S : Cardinality(U) <= n}}

(***************************************************************************)
(* crates.rs: Crate                                                        *)
(***************************************************************************)

\* name.contains(':') || name.contains('/')
IsCrossRef(name) == name \in CrossRefs

RECURSIVE LocalSubs(_)
\* sub.iter().filter(|name| !name.contains(':') && !name.contains('/'))
LocalSubs(sub) ==
    IF sub = <<>> THEN <<>>
    ELSE (IF IsCrossRef(Head(sub)) THEN <<>> ELSE <<Head(sub)>>) \o LocalSubs(Tail(sub))

\* the panic of expect()/unwrap(): the value a panicking operation leaves
Panic == [panic |-> TRUE]

IsPanic(c) == "panic" \in DOMAIN c

\* Option<usize>: 0 is None, indices are 1-based
get_index(c, feature_name) ==
    IF \E i \in DOMAIN c.features : c.features[i][1] = feature_name
    THEN CHOOSE i \in DOMAIN c.features :
            /\ c.features[i][1] = feature_name
            /\ \A j \in DOMAIN c.features : c.features[j][1] = feature_name => i <= j
    ELSE 0

\* enable_feature_usage without the recursion into the implies list
EnableNoCascade(c, feature_name) ==
    LET index == get_index(c, feature_name)
    IN IF index = 0 THEN Panic
       ELSE [c EXCEPT !.features[index] = <<feature_name, TRUE>>]

\* enable_feature_usage behaving as a toggle when the feature is already enabled
RECURSIVE EnableFlip(_, _)
EnableFlip(c, feature_name) ==
    IF IsPanic(c) THEN c
    ELSE
    LET index == get_index(c, feature_name)
    IN IF index = 0 THEN Panic
       ELSE IF c.features[index][2]
            THEN [c EXCEPT !.features[index] = <<feature_name, FALSE>>]
            ELSE LET c1 == [c EXCEPT !.features[index] = <<feature_name, TRUE>>]
                     RECURSIVE Each(_, _)
                     Each(cc, subs) ==
                        IF subs = <<>> THEN cc
                        ELSE Each(EnableFlip(cc, Head(subs)), Tail(subs))
                 IN IF feature_name \notin DOMAIN c.features_map THEN c1
                    ELSE Each(c1, c.features_map[feature_name])

\* enable_feature_usage ignoring a name that is no feature instead of failing
RECURSIVE EnableLenient(_, _)
EnableLenient(c, feature_name) ==
    IF IsPanic(c) THEN c
    ELSE
    LET index == get_index(c, feature_name)
    IN IF index = 0 THEN c
       ELSE IF c.features[index][2] THEN c
            ELSE LET c1 == [c EXCEPT !.features[index] = <<feature_name, TRUE>>]
                     RECURSIVE Each(_, _)
                     Each(cc, subs) ==
                        IF subs = <<>> THEN cc
                        ELSE Each(EnableLenient(cc, Head(subs)), Tail(subs))
                 IN IF feature_name \notin DOMAIN c.features_map THEN c1
                    ELSE Each(c1, c.features_map[feature_name])

RECURSIVE enable_feature_usage(_, _)
enable_feature_usage(c, feature_name) ==
    IF IsPanic(c) THEN c
    ELSE
    LET index == get_index(c, feature_name)
    IN IF index = 0 THEN Panic
       ELSE IF c.features[index][2] THEN c
            ELSE LET c1 == [c EXCEPT !.features[index] = <<feature_name, TRUE>>]
                     RECURSIVE Each(_, _)
                     Each(cc, subs) ==
                        IF subs = <<>> THEN cc
                        ELSE Each(enable_feature_usage(cc, Head(subs)), Tail(subs))
                 IN IF feature_name \notin DOMAIN c.features_map THEN c1
                    ELSE Each(c1, c.features_map[feature_name])

\* names of the features whose implies list contains feature_name
get_dependent_features(c, feature_name) ==
    SeqOfSet({name \in DOMAIN c.features_map :
                 Contains(c.features_map[name], feature_name)})

\* disable_feature_usage without the recursion into the dependents
DisableNoCascade(c, feature_name) ==
    LET index == get_index(c, feature_name)
    IN IF index = 0 THEN Panic
       ELSE [c EXCEPT !.features[index] = <<feature_name, FALSE>>]

\* disable_feature_usage cascading to the implied features as well as to the
\* dependents
RECURSIVE DisableImplied(_, _)
DisableImplied(c, feature_name) ==
    IF IsPanic(c) THEN c
    ELSE
    LET index == get_index(c, feature_name)
    IN IF index = 0 THEN Panic
       ELSE IF ~c.features[index][2] THEN c
            ELSE LET c1 == [c EXCEPT !.features[index] = <<feature_name, FALSE>>]
                     RECURSIVE Each(_, _)
                     Each(cc, names) ==
                        IF names = <<>> THEN cc
                        ELSE Each(DisableImplied(cc, Head(names)), Tail(names))
                 IN Each(c1, get_dependent_features(c1, feature_name)
                             \o (IF feature_name \in DOMAIN c.features_map
                                 THEN c.features_map[feature_name] ELSE <<>>))

RECURSIVE disable_feature_usage(_, _)
disable_feature_usage(c, feature_name) ==
    IF IsPanic(c) THEN c
    ELSE
    LET index == get_index(c, feature_name)
    IN IF index = 0 THEN Panic
       ELSE IF ~c.features[index][2] THEN c
            ELSE LET c1 == [c EXCEPT !.features[index] = <<feature_name, FALSE>>]
                     RECURSIVE Each(_, _)
                     Each(cc, names) ==
                        IF names = <<>> THEN cc
                        ELSE Each(disable_feature_usage(cc, Head(names)), Tail(names))
                 IN Each(c1, get_dependent_features(c1, feature_name))

toggle_feature_usage(c, feature_index) ==
    IF feature_index \notin DOMAIN c.features THEN Panic
    ELSE IF c.features[feature_index][2]
         THEN disable_feature_usage(c, c.features[feature_index][1])
         ELSE enable_feature_usage(c, c.features[feature_index][1])

get_all_enabled_features(c) ==
    LET RECURSIVE Walk(_)
        Walk(fs) ==
            IF fs = <<>> THEN <<>>
            ELSE (IF Head(fs)[2] THEN <<Head(fs)[1]>> ELSE <<>>) \o Walk(Tail(fs))
    IN Walk(c.features)

\* uses_default answering whether the enabled names are the default names and
\* no others
UsesDefaultExact(c) ==
    Range(get_all_enabled_features(c)) = Range(c.default_features)

\* get_enabled_features leaving the default names out whatever uses_default says
EnabledWithoutDefaults(c) ==
    LET RECURSIVE Walk(_)
        Walk(fs) ==
            IF fs = <<>> THEN <<>>
            ELSE (IF Head(fs)[2] /\ ~Contains(c.default_features, Head(fs)[1])
                  THEN <<Head(fs)[1]>> ELSE <<>>) \o Walk(Tail(fs))
    IN Walk(c.features)

uses_default(c) ==
    LET enabled_features == get_all_enabled_features(c)
    IN \A i \in DOMAIN c.default_features :
          Contains(enabled_features, c.default_features[i])

get_enabled_features(c) ==
    LET default_features == IF uses_default(c) THEN c.default_features ELSE <<>>
        RECURSIVE Walk(_)
        Walk(fs) ==
            IF fs = <<>> THEN <<>>
            ELSE (IF Head(fs)[2] /\ ~Contains(default_features, Head(fs)[1])
                  THEN <<Head(fs)[1]>> ELSE <<>>) \o Walk(Tail(fs))
    IN Walk(c.features)

\* the comparator of features.sort_by in Crate::new: TRUE when a sorts before b
SortsBefore(default_features, a, b) ==
    IF Contains(default_features, a) /\ ~Contains(default_features, b) THEN TRUE
    ELSE IF Contains(default_features, b) /\ ~Contains(default_features, a) THEN FALSE
    ELSE NameRank(a) < NameRank(b)

\* the feature list left in the order the names were pushed
SortNone(default_features, fs) == fs

RECURSIVE SortFeatures(_, _)
\* features.sort_by(..): a stable insertion of every entry
SortFeatures(default_features, fs) ==
    IF fs = <<>> THEN <<>>
    ELSE LET rest == SortFeatures(default_features, Tail(fs))
             x == Head(fs)
             k == Cardinality({i \in DOMAIN rest :
                                 SortsBefore(default_features, rest[i][1], x[1])})
         IN SubSeq(rest, 1, k) \o <<x>> \o SubSeq(rest, k + 1, Len(rest))

RECURSIVE Dedup(_)
\* Vec::dedup: drops an entry equal to the entry before it
Dedup(fs) ==
    IF Len(fs) <= 1 THEN fs
    ELSE IF fs[1] = fs[2] THEN Dedup(Tail(fs))
         ELSE <<fs[1]>> \o Dedup(Tail(fs))

\* the enable loop of Crate::new without the default features
EnableRequestedOnly(new_crate, enabled_features, has_default) ==
    LET RECURSIVE Each(_, _)
        Each(cc, fs) ==
            IF fs = <<>> THEN cc
            ELSE LET name == Head(fs)[1]
                 IN IF Contains(enabled_features, name)
                    THEN Each(enable_feature_usage(cc, name), Tail(fs))
                    ELSE Each(cc, Tail(fs))
    IN Each(new_crate, new_crate.features)

\* Crate::new lines 71-76: every feature that is requested, or is a default
\* feature while the default profile is requested, is enabled
EnableRequested(new_crate, enabled_features, has_default) ==
    LET RECURSIVE Each(_, _)
        Each(cc, fs) ==
            IF fs = <<>> THEN cc
            ELSE LET name == Head(fs)[1]
                 IN IF (has_default /\ Contains(new_crate.default_features, name))
                       \/ Contains(enabled_features, name)
                    THEN Each(enable_feature_usage(cc, name), Tail(fs))
                    ELSE Each(cc, Tail(fs))
    IN Each(new_crate, new_crate.features)

\* Crate::new(version, enabled_features, has_default)
CrateNew(version, enabled_features, has_default) ==
    LET keys == DOMAIN version.features \ {"default"}
        features_map ==
            [name \in keys |->
                LocalSubs(version.features[name])]
        default_features ==
            IF "default" \in DOMAIN version.features
            THEN version.features["default"] ELSE <<>>
        RECURSIVE Push(_)
        Push(ks) ==
            IF ks = <<>> THEN <<>>
            ELSE <<<<Head(ks), FALSE>>>>
                 \o [i \in DOMAIN features_map[Head(ks)] |->
                        <<features_map[Head(ks)][i], FALSE>>]
                 \o Push(Tail(ks))
        optional == [i \in DOMAIN version.optional |-> <<version.optional[i], FALSE>>]
        features == Dedup(SortFeatures(default_features, Push(SeqOfSet(keys)) \o optional))
        new_crate == [version |-> [name |-> version.name, num |-> version.num],
                      features_map |-> features_map,
                      features |-> features,
                      default_features |-> default_features]
    IN EnableRequested(new_crate, enabled_features, has_default)

\* the enabled names of a crate, as a set
EnabledSet(c) == Range(get_all_enabled_features(c))

\* the node names of a crate
Nodes(c) == {c.features[i][1] : i \in DOMAIN c.features}

\* the names reachable from the names in S by following implies edges
RECURSIVE Reach(_, _)
Reach(c, S) ==
    LET T == S \cup UNION {Range(c.features_map[n]) : n \in S \cap DOMAIN c.features_map}
    IN IF T = S THEN S ELSE Reach(c, T)

\* the names that reach a name of S by following implies edges, S included
RECURSIVE Dependents(_, _)
Dependents(c, S) ==
    LET T == S \cup {n \in DOMAIN c.features_map : Range(c.features_map[n]) \cap S # {}}
    IN IF T = S THEN S ELSE Dependents(c, T)

(***************************************************************************)
(* The calls of enable_feature_usage and disable_feature_usage, one by one *)
(***************************************************************************)

\* the calls a cascade may need: the first one, and one for every entry of an
\* implies list each time the feature holding it, or held by it, is flipped
CallBudget(c) == 1 + Len(c.features) * Len(c.features)

\* a cascade that has not ended within the calls it was given
Diverged(c) == [crate |-> c, ended |-> FALSE]

\* the calls a call of op on feature_name makes when it passes its early
\* return: enable calls itself on the implies list, disable on the dependents
NestedCalls(c, op, feature_name) ==
    IF op = "Enable"
    THEN (IF feature_name \in DOMAIN c.features_map
          THEN c.features_map[feature_name] ELSE <<>>)
    ELSE get_dependent_features(c, feature_name)

\* the cascade without the early return on a feature that is in the target
\* state already
RECURSIVE RunCallsUnguarded(_, _, _, _)
RunCallsUnguarded(c, op, pending, calls) ==
    IF pending = <<>> THEN [crate |-> c, ended |-> TRUE]
    ELSE IF calls = 0 THEN Diverged(c)
    ELSE LET feature_name == Head(pending)
             index == get_index(c, feature_name)
         IN IF index = 0 THEN [crate |-> Panic, ended |-> TRUE]
            ELSE RunCallsUnguarded(
                     [c EXCEPT !.features[index] = <<feature_name, op = "Enable">>],
                     op,
                     NestedCalls(c, op, feature_name) \o Tail(pending),
                     calls - 1)

\* enable_feature_usage / disable_feature_usage run call by call: pending
\* holds the calls still to make, innermost first, and calls the number of
\* calls the run may still make
RECURSIVE RunCalls(_, _, _, _)
RunCalls(c, op, pending, calls) ==
    IF pending = <<>> THEN [crate |-> c, ended |-> TRUE]
    ELSE IF calls = 0 THEN Diverged(c)
    ELSE LET feature_name == Head(pending)
             index == get_index(c, feature_name)
         IN IF index = 0 THEN [crate |-> Panic, ended |-> TRUE]
            ELSE IF c.features[index][2] = (op = "Enable")
                 THEN RunCalls(c, op, Tail(pending), calls - 1)
                 ELSE RunCalls(
                          [c EXCEPT !.features[index] = <<feature_name, op = "Enable">>],
                          op,
                          NestedCalls(c, op, feature_name) \o Tail(pending),
                          calls - 1)

(***************************************************************************)
(* Registry data and manifest entries (the inputs of construction)         *)
(***************************************************************************)

\* version.features() of a drawn registry version: declared keys (with
\* "default") mapped to lists of raw entries
FeatureMaps ==
    UNION {[K -> Lists(FeatureNames \cup CrossRefs, MaxSubs)] :
              K \in SUBSET (FeatureNames \cup {"default"})}

\* a registry version: every local name that is no declared feature is an
\* optional dependency, so every local name a list mentions is resolvable
VersionOf(dep_name, f) ==
    [name |-> dep_name, num |-> "1.0.0", features |-> f,
     optional |-> SeqOfSet(FeatureNames \ DOMAIN f)]

Versions(dep_name) == {VersionOf(dep_name, f) : f \in FeatureMaps}

(***************************************************************************)
(* State                                                                   *)
(***************************************************************************)

VARIABLES
    crates,     \* Document.crates: the dependencies' graphs, in manifest order
    toml_doc,   \* Document.toml_doc as last written to the manifest file
    pc,         \* position of the running command
    last,       \* the last graph operation: its name, argument and pre-state
    ignore_file,        \* the content of Features.toml
    is_dry_run,         \* prune's is_dry_run argument
    ignored_features,   \* prune_package: the map read from Features.toml
    dep_i,              \* prune_package: position of the loop over deps
    enabled_features,   \* prune_package: the candidates of the current dependency
    id,                 \* prune_package: position of the loop over the candidates
    to_be_disabled,     \* prune_package: the accepted candidates
    pre_run,            \* the manifest and the enabled sets as loaded
    oracle,             \* the command check() runs: what it needs to succeed,
                        \* its last answer and its runs for the dependency
    display             \* Display: its state, selectors and search text

graph_vars == <<crates, toml_doc, pc, last>>

prune_vars == <<ignore_file, is_dry_run, ignored_features, dep_i, enabled_features,
                id, to_be_disabled, pre_run, oracle>>

vars == <<graph_vars, prune_vars, display>>

\* the empty HashMap
EmptyMap == [k \in {} |-> <<>>]

\* the value of last while no single graph is driven
NoOp ==
    [op |-> "none", name |-> "", requested |-> <<>>, has_default |-> FALSE,
     pre |-> {}, prev_op |-> "none", pre2 |-> {}]

\* a check command whose exit status is not tied to the manifest, before its
\* first run
AnyOracle == [det |-> FALSE, needs |-> {}, answer |-> "none", calls |-> 0]

\* a selector without data
EmptySelector == [selected_index |-> 0, data |-> <<>>]

\* the value of display while no editor runs
NoDisplay ==
    [state |-> "none", is_workspace |-> FALSE, package_selector |-> EmptySelector,
     dep_selector |-> EmptySelector, feature_selector |-> EmptySelector,
     search_text |-> <<>>]

(***************************************************************************)
(* A single Crate driven through its public operations                     *)
(***************************************************************************)

\* op(name) directly follows a call with the same name that makes the two a
\* pair: the same operation twice, or Enable then Disable
FollowsPair(op, name) ==
    /\ last.name = name
    /\ last.op = op \/ (last.op = "Enable" /\ op = "Disable")

\* the record of an operation: its pre-state and, for the second call of a
\* pair, the first call and its pre-state
OpRecord(op, name, c) ==
    [op |-> op, name |-> name, requested |-> <<>>, has_default |-> FALSE,
     pre |-> EnabledSet(c),
     prev_op |-> IF FollowsPair(op, name) THEN last.op ELSE "none",
     pre2 |-> IF FollowsPair(op, name) THEN last.pre ELSE {}]

InitGraph ==
    \E version \in Versions("D1"),
       requested \in Lists(FeatureNames, MaxRequested),
       has_default \in BOOLEAN :
        /\ crates = <<CrateNew(version, requested, has_default)>>
        /\ toml_doc = <<>>
        /\ pc = "ready"
        /\ last = [op |-> "New", name |-> "", requested |-> requested,
                   has_default |-> has_default, pre |-> {},
                   prev_op |-> "none", pre2 |-> {}]
        /\ ignore_file = [exists |-> FALSE, table |-> EmptyMap]
        /\ is_dry_run = FALSE
        /\ ignored_features = EmptyMap
        /\ dep_i = 0
        /\ enabled_features = <<>>
        /\ id = 0
        /\ to_be_disabled = <<>>
        /\ pre_run = [toml_doc |-> <<>>, enabled |-> <<>>]
        /\ oracle = AnyOracle
        /\ display = NoDisplay

\* the outcome of one operation on crates[1]: the new graph, or the panic
Apply(op, name, result) ==
    /\ pc = "ready"
    /\ IF IsPanic(result)
       THEN /\ pc' = "panicked"
            /\ UNCHANGED <<crates, last>>
       ELSE /\ crates' = [crates EXCEPT ![1] = result]
            /\ last' = OpRecord(op, name, crates[1])
            /\ pc' = pc
    /\ UNCHANGED <<toml_doc, prune_vars, display>>

Enable ==
    \E name \in FeatureNames :
        Apply("Enable", name, enable_feature_usage(crates[1], name))

Disable ==
    \E name \in FeatureNames :
        Apply("Disable", name, disable_feature_usage(crates[1], name))

Toggle ==
    \E feature_index \in 1..Len(crates[1].features) :
        Apply(IF crates[1].features[feature_index][2] THEN "Disable" ELSE "Enable",
              crates[1].features[feature_index][1],
              toggle_feature_usage(crates[1], feature_index))

NextGraph == Enable \/ Disable \/ Toggle

SpecGraph == InitGraph /\ [][NextGraph]_vars

(***************************************************************************)
(* Claims about the graph                                                  *)
(***************************************************************************)

\* the closure property of one graph: every enabled feature has every
\* feature of its implies list enabled
Closed(c) ==
    \A n \in DOMAIN c.features_map :
        n \in EnabledSet(c) => Range(c.features_map[n]) \subseteq EnabledSet(c)

\* C1: in every reachable state every enabled feature has all features of its
\* implies list enabled
C1_ClosureInvariant == \A i \in DOMAIN crates : Closed(crates[i])

\* C1 witness: an Enable or Disable has acted and left a feature with a
\* non-empty implies list enabled
C1_Witness ==
    /\ last.op \in {"Enable", "Disable"}
    /\ \E n \in DOMAIN crates[1].features_map :
          /\ n \in EnabledSet(crates[1])
          /\ crates[1].features_map[n] # <<>>
          /\ Contains(crates[1].features_map[n], n) = FALSE

\* C2: after Enable(f), f and every feature reachable from f by implies edges
\* is enabled
C2_EnableClosure ==
    last.op = "Enable" =>
        Reach(crates[1], {last.name}) \subseteq EnabledSet(crates[1])

\* C2 witness: an Enable of a disabled feature whose closure has three
\* features, none of them enabled before
C2_Witness ==
    /\ last.op = "Enable"
    /\ Cardinality(Reach(crates[1], {last.name})) = 3
    /\ last.pre = {}

\* C3: after Disable(f), f and every feature that transitively depends on f is
\* disabled
C3_DisableDependents ==
    last.op = "Disable" =>
        Dependents(crates[1], {last.name}) \cap EnabledSet(crates[1]) = {}

\* C3 witness: a Disable of a feature with two transitive dependents, all three
\* enabled before
C3_Witness ==
    /\ last.op = "Disable"
    /\ Cardinality(Dependents(crates[1], {last.name})) = 3
    /\ Dependents(crates[1], {last.name}) \subseteq last.pre

\* no feature lists name in its implies list
NoDependents(c, name) == get_dependent_features(c, name) = <<>>

\* C4 as stated: for f without dependents, Enable(f) followed by Disable(f)
\* leaves the enabled set of before the Enable
C4_RoundTripAsStated ==
    (/\ last.op = "Disable"
     /\ last.prev_op = "Enable"
     /\ NoDependents(crates[1], last.name))
    => EnabledSet(crates[1]) = last.pre2

\* C4 amended: for f without dependents that was disabled and whose implies
\* list was entirely enabled before the Enable, Enable(f) followed by
\* Disable(f) leaves the enabled set of before the Enable
C4_RoundTrip ==
    (/\ last.op = "Disable"
     /\ last.prev_op = "Enable"
     /\ NoDependents(crates[1], last.name)
     /\ last.name \notin last.pre2
     /\ Reach(crates[1], {last.name}) \ {last.name} \subseteq last.pre2)
    => EnabledSet(crates[1]) = last.pre2

\* C4 witness: such an Enable(f), Disable(f) pair has run, f implying an
\* enabled feature
C4_Witness ==
    /\ last.op = "Disable"
    /\ last.prev_op = "Enable"
    /\ NoDependents(crates[1], last.name)
    /\ last.name \notin last.pre2
    /\ Reach(crates[1], {last.name}) # {last.name}
    /\ Reach(crates[1], {last.name}) \ {last.name} \subseteq last.pre2

\* Scenario A of the specification: default -> [a], a -> [b], c
IsScenarioA(c) ==
    /\ c.features_map = [n \in {"a", "c"} |-> IF n = "a" THEN <<"b">> ELSE <<>>]
    /\ c.default_features = <<"a">>

\* C5 as stated: in Scenario A, Enable(c) on {a,b} yields {a,b,c} and the
\* following Disable(a) yields {c} with uses_default false
C5_ScenarioAAsStated ==
    IsScenarioA(crates[1]) =>
        /\ (last.op = "Enable" /\ last.name = "c" /\ last.pre = {"a", "b"})
              => EnabledSet(crates[1]) = {"a", "b", "c"}
        /\ (last.op = "Disable" /\ last.name = "a" /\ last.pre = {"a", "b", "c"})
              => (EnabledSet(crates[1]) = {"c"} /\ ~uses_default(crates[1]))

\* C5 amended: in Scenario A, Enable(c) on {a,b} yields {a,b,c} and the
\* following Disable(a) yields {b,c} with uses_default false
C5_ScenarioA ==
    IsScenarioA(crates[1]) =>
        /\ (last.op = "Enable" /\ last.name = "c" /\ last.pre = {"a", "b"})
              => EnabledSet(crates[1]) = {"a", "b", "c"}
        /\ (last.op = "Disable" /\ last.name = "a" /\ last.pre = {"a", "b", "c"})
              => (EnabledSet(crates[1]) = {"b", "c"} /\ ~uses_default(crates[1]))

\* C5 witness: Scenario A after Disable(a) on {a,b,c}
C5_Witness ==
    /\ IsScenarioA(crates[1])
    /\ last.op = "Disable" /\ last.name = "a" /\ last.pre = {"a", "b", "c"}

\* C6: Enable(f) twice leaves the enabled set of Enable(f) once, and Disable(f)
\* twice leaves the enabled set of Disable(f) once
C6_Idempotence ==
    (last.op \in {"Enable", "Disable"} /\ last.prev_op = last.op)
        => EnabledSet(crates[1]) = last.pre

\* C6 witness: a second Enable(f) right after an Enable(f) that enabled f and
\* another feature
C6_Witness ==
    /\ last.op = "Enable" /\ last.prev_op = "Enable"
    /\ Cardinality(last.pre \ last.pre2) >= 2

\* C6 witness for Disable: a second Disable(f) right after a cascading one
C6_WitnessDisable ==
    /\ last.op = "Disable" /\ last.prev_op = "Disable"
    /\ Cardinality(last.pre2 \ last.pre) >= 2

\* C11: uses_default is TRUE exactly when every name of the default list is
\* enabled, whatever else is enabled
C11_UsesDefault ==
    \A i \in DOMAIN crates :
        uses_default(crates[i])
            <=> Range(crates[i].default_features) \subseteq EnabledSet(crates[i])

\* C11 witness: after an Enable the default names and a name outside the
\* default list are enabled, and uses_default is TRUE
C11_Witness ==
    /\ last.op = "Enable"
    /\ crates[1].default_features # <<>>
    /\ uses_default(crates[1])
    /\ EnabledSet(crates[1]) \ Range(crates[1].default_features) # {}

\* C11 witness of the other direction: a default name is disabled and
\* uses_default is FALSE while other features are enabled
C11_WitnessFalse ==
    /\ last.op = "Disable"
    /\ Range(crates[1].default_features) \cap Nodes(crates[1]) # {}
    /\ ~uses_default(crates[1])
    /\ EnabledSet(crates[1]) # {}

\* C20: the enabled set Crate::new yields is the implication closure of the
\* requested features together with, when the default profile is requested,
\* the default features; so the graph is closed in the initial state
C20_Construction ==
    last.op = "New" =>
        LET c == crates[1]
            seeds == Range(last.requested)
                     \cup (IF last.has_default THEN Range(c.default_features) ELSE {})
        IN /\ EnabledSet(c) = Reach(c, seeds \cap Nodes(c))
           /\ Closed(c)

\* C20 witness: a graph constructed with the default profile and a requested
\* feature outside the default list, whose closure adds further features
C20_Witness ==
    /\ last.op = "New"
    /\ last.has_default
    /\ Range(crates[1].default_features) \cap Nodes(crates[1]) # {}
    /\ Range(last.requested) \ Range(crates[1].default_features) # {}
    /\ EnabledSet(crates[1])
          \ (Range(last.requested) \cup Range(crates[1].default_features)) # {}

\* feature_name lies on a cycle of implies edges
OnCycle(c, feature_name) ==
    /\ feature_name \in DOMAIN c.features_map
    /\ feature_name \in Reach(c, Range(c.features_map[feature_name]))

\* C21: in every reachable state, Enable(f) and Disable(f) of every feature f
\* end within the call budget, on graphs with self-loops and longer cycles as
\* on the others, and end in the state the recursion yields
C21_Terminates ==
    LET c == crates[1]
    IN \A feature_name \in Nodes(c) :
          /\ RunCalls(c, "Enable", <<feature_name>>, CallBudget(c))
                = [crate |-> enable_feature_usage(c, feature_name), ended |-> TRUE]
          /\ RunCalls(c, "Disable", <<feature_name>>, CallBudget(c))
                = [crate |-> disable_feature_usage(c, feature_name), ended |-> TRUE]

\* C21 witness: Enable of a feature on a cycle of two or more features has
\* switched the cycle on
C21_Witness ==
    /\ last.op = "Enable"
    /\ OnCycle(crates[1], last.name)
    /\ last.name \notin Range(crates[1].features_map[last.name])
    /\ last.name \notin last.pre
    /\ last.name \in EnabledSet(crates[1])

\* C21 witness of the other operation: Disable of a feature with a self-loop
C21_WitnessSelfLoop ==
    /\ last.op = "Disable"
    /\ last.name \in DOMAIN crates[1].features_map
    /\ last.name \in Range(crates[1].features_map[last.name])
    /\ last.name \in last.pre

\* C26: a graph constructed with the default profile requested has
\* uses_default TRUE right after the construction, whatever the default list
\* names
C26_DefaultAfterConstruction ==
    (last.op = "New" /\ last.has_default) => uses_default(crates[1])

\* C26 holds of the default lists all of whose entries are nodes
C26_LocalDefaults ==
    (/\ last.op = "New"
     /\ last.has_default
     /\ Range(crates[1].default_features) \subseteq Nodes(crates[1]))
        => uses_default(crates[1])

(***************************************************************************)
(* A single Crate called with names that may be no feature of it           *)
(***************************************************************************)

\* names no registry version declares: a plain one and a cross-package one
UnknownNames == {"zz"} \cup CrossRefs

InitNames == InitGraph /\ last.requested = <<>> /\ last.has_default

\* one call of op with any name: the new graph, or the panic of expect()
\* with the graph as it was when the call failed at its first lookup
CallNamed(op, name, result) ==
    /\ pc = "ready"
    /\ last' = [OpRecord(op, name, crates[1]) EXCEPT !.prev_op = "none", !.pre2 = {}]
    /\ IF IsPanic(result)
       THEN /\ pc' = "panicked"
            /\ UNCHANGED crates
       ELSE /\ crates' = [crates EXCEPT ![1] = result]
            /\ pc' = pc
    /\ UNCHANGED <<toml_doc, prune_vars, display>>

EnableNamed ==
    \E name \in FeatureNames \cup UnknownNames :
        CallNamed("Enable", name, enable_feature_usage(crates[1], name))

DisableNamed ==
    \E name \in FeatureNames \cup UnknownNames :
        CallNamed("Disable", name, disable_feature_usage(crates[1], name))

NextNames == EnableNamed \/ DisableNamed

SpecNames == InitNames /\ [][NextNames]_vars

\* C15: Enable and Disable fail exactly for the names that are no node, and
\* then at the lookup of the name itself, before any flag is written; for a
\* node they never fail, since every name of an implies list is a node and no
\* cross-package entry is kept in an implies list
C15_UnknownFeature ==
    LET c == crates[1]
    IN /\ pc = "panicked" =>
             /\ last.name \notin Nodes(c)
             /\ get_index(c, last.name) = 0
             /\ EnabledSet(c) = last.pre
       /\ (pc = "ready" /\ last.op \in {"Enable", "Disable"}) => last.name \in Nodes(c)
       /\ \A name \in FeatureNames \cup UnknownNames :
             /\ IsPanic(enable_feature_usage(c, name)) <=> name \notin Nodes(c)
             /\ IsPanic(disable_feature_usage(c, name)) <=> name \notin Nodes(c)
       /\ \A k \in DOMAIN c.features_map :
             /\ Range(c.features_map[k]) \subseteq Nodes(c)
             /\ \A i \in DOMAIN c.features_map[k] : ~IsCrossRef(c.features_map[k][i])

\* C15 witness: Enable of a name that is no node failed on a graph with
\* enabled features, after calls that succeeded
C15_Witness ==
    /\ pc = "panicked"
    /\ last.op = "Enable"
    /\ last.name \in UnknownNames
    /\ Cardinality(EnabledSet(crates[1])) >= 2

\* C15 witness of the other case: Disable of a node that cascades through an
\* implies list succeeded
C15_WitnessNode ==
    /\ pc = "ready"
    /\ last.op = "Disable"
    /\ Cardinality(last.pre \ EnabledSet(crates[1])) >= 2

(***************************************************************************)
(* document.rs: the manifest                                               *)
(***************************************************************************)

\* a dependency's manifest entry: a bare version string, or an inline table
\* with the feature list and, possibly, a default-features flag
BareEntry(num) ==
    [bare |-> TRUE, version |-> num, features |-> <<>>, default_features |-> "absent"]

TableEntry(num, features, flag) ==
    [bare |-> FALSE, version |-> num, features |-> features, default_features |-> flag]

\* write_dep choosing the bare version string whenever the feature list is empty
EntryBareWhenNoFeatures(current_crate) ==
    IF Len(get_enabled_features(current_crate)) # 0
    THEN TableEntry(current_crate.version.num,
                    get_enabled_features(current_crate),
                    IF ~uses_default(current_crate) THEN "false" ELSE "absent")
    ELSE BareEntry(current_crate.version.num)

\* Document::write_dep: the entry written for a crate
EntryOf(current_crate) ==
    IF ~uses_default(current_crate) \/ Len(get_enabled_features(current_crate)) # 0
    THEN TableEntry(current_crate.version.num,
                    get_enabled_features(current_crate),
                    IF ~uses_default(current_crate) THEN "false" ELSE "absent")
    ELSE BareEntry(current_crate.version.num)

\* Document::write_dep(dep_index): the document after the write
write_dep(doc, cs, dep_index) == [doc EXCEPT ![dep_index] = EntryOf(cs[dep_index])]

\* the crate the manifest store loads for an entry: Crate::new on the
\* registry version with the entry's feature list and default-features flag
LoadCrate(version, entry) ==
    CrateNew(version, entry.features, entry.default_features # "false")

\* the crate a later load of the written entry yields: the graph of c with
\* the enabled flags the entry denotes
Reload(c, entry) ==
    EnableRequested([c EXCEPT !.features =
                        [i \in DOMAIN c.features |-> <<c.features[i][1], FALSE>>]],
                    entry.features, entry.default_features # "false")

\* the enabled set the manifest entry of dependency d denotes
PersistedEnabled(d) == EnabledSet(Reload(crates[d], toml_doc[d]))

\* Crate::new on the registry version of c with the feature list and the
\* default-features flag of entry: the feature list of c with every flag
\* FALSE, then the enable loop
Reconstructed(c, entry) ==
    EnableRequested([c EXCEPT !.features =
                        [i \in DOMAIN c.features |-> <<c.features[i][1], FALSE>>]],
                    entry.features, entry.default_features # "false")

\* C25: in every reachable state of a graph, the entry write_dep writes for
\* it, read back as a feature list and a default-features flag (an absent
\* flag requesting the default profile) and given to the construction, yields
\* the enabled set of the graph
C25_PersistReload ==
    \A d \in DOMAIN crates :
        EnabledSet(Reconstructed(crates[d], EntryOf(crates[d]))) = EnabledSet(crates[d])

\* C25 witness: after an Enable the entry is a table without the flag whose
\* list leaves out enabled default features, which the reload has to enable
\* through the default profile
C25_Witness ==
    /\ last.op = "Enable"
    /\ ~EntryOf(crates[1]).bare
    /\ EntryOf(crates[1]).default_features = "absent"
    /\ EnabledSet(crates[1]) \ Range(EntryOf(crates[1]).features) # {}

\* C25 witness of the other case: after a Disable the entry holds the flag and
\* a list of features, and the graph has a default feature the reload must
\* leave disabled
C25_WitnessFlag ==
    /\ last.op = "Disable"
    /\ EntryOf(crates[1]).default_features = "false"
    /\ EntryOf(crates[1]).features # <<>>
    /\ Range(crates[1].default_features) \cap Nodes(crates[1]) # {}

(***************************************************************************)
(* prune.rs: the pruner                                                    *)
(***************************************************************************)

NumDeps == Len(DepNames)

\* the registry versions the manifest's dependencies resolve to
PruneFeatureMaps ==
    { \* Scenario A: default -> [a], a -> [b], c
      [n \in {"default", "a", "c"} |->
          CASE n = "default" -> <<"a">> [] n = "a" -> <<"b">> [] OTHER -> <<>>],
      \* a chain of dependents: c -> [b], b -> [a]
      [n \in {"a", "b", "c"} |->
          CASE n = "c" -> <<"b">> [] n = "b" -> <<"a">> [] OTHER -> <<>>],
      \* a cycle, a cross-package entry in the default list
      [n \in {"default", "a", "b"} |->
          CASE n = "default" -> <<"c", "d/x">> [] n = "a" -> <<"b">> [] OTHER -> <<"a">>] }

\* the entries a manifest may hold for a dependency before the run
ManifestEntries ==
    {BareEntry("1.0.0")}
    \cup {TableEntry("1.0.0", features, flag) :
             features \in Lists(FeatureNames, MaxRequested),
             flag \in {"absent", "false"}}

\* a value of Features.toml: an array of strings, or something else
ArrayOf(items) == [is_array |-> TRUE, items |-> items]

NotAnArray == [is_array |-> FALSE, items |-> <<>>]

\* the contents of Features.toml
IgnoreFiles ==
    { [exists |-> FALSE, table |-> EmptyMap],
      [exists |-> TRUE, table |-> [k \in {"D1"} |-> ArrayOf(<<"c">>)]],
      [exists |-> TRUE,
       table |-> [k \in {"D1", "D2"} |->
                    IF k = "D1" THEN ArrayOf(<<"a">>) ELSE ArrayOf(<<"b", "c">>)]],
      [exists |-> TRUE, table |-> [k \in {"D1"} |-> NotAnArray]] }

\* get_ignored_features: the map, or the error of a value that is no array
get_ignored_features(file) ==
    IF ~file.exists THEN [ok |-> TRUE, map |-> EmptyMap]
    ELSE IF \E k \in DOMAIN file.table : ~file.table[k].is_array
         THEN [ok |-> FALSE, map |-> EmptyMap]
         ELSE [ok |-> TRUE, map |-> [k \in DOMAIN file.table |-> file.table[k].items]]

\* ignored_features.get(name).unwrap_or(&vec![])
IgnoredOf(map, name) == IF name \in DOMAIN map THEN map[name] ELSE <<>>

\* the candidate filter without the ignore list
CandidatesUnfiltered(c, map) == get_all_enabled_features(c)

\* prune_package, the enabled_features of a dependency: its enabled features
\* that the ignore list does not name, in the order of the feature list
Candidates(c, map) ==
    LET ignored == IgnoredOf(map, c.version.name)
        RECURSIVE Walk(_)
        Walk(fs) ==
            IF fs = <<>> THEN <<>>
            ELSE (IF Head(fs)[2] /\ ~Contains(ignored, Head(fs)[1])
                  THEN <<Head(fs)[1]>> ELSE <<>>) \o Walk(Tail(fs))
    IN Walk(c.features)

RECURSIVE EnableAll(_, _)
\* for feature in names { dep.enable_feature(feature) }
EnableAll(c, names) ==
    IF names = <<>> THEN c
    ELSE EnableAll(enable_feature_usage(c, Head(names)), Tail(names))

RECURSIVE DisableAll(_, _)
\* for feature in names { dep.disable_feature(feature) }
DisableAll(c, names) ==
    IF names = <<>> THEN c
    ELSE DisableAll(disable_feature_usage(c, Head(names)), Tail(names))

\* the enabled set the entry of dependency d denotes in the manifest doc
EnabledIn(doc, d) == EnabledSet(Reload(crates[d], doc[d]))

\* the exit status of a check command that is tied to the manifest: the build
\* succeeds when the first dependency provides at least one of the features
\* the package can build on
OracleAccepts(doc) == oracle.needs \cap EnabledIn(doc, 1) # {}

\* check(): the results the call may have on the manifest doc. "passed" and
\* "failed" are Ok(code == 0); "unavailable" is the Err of a command that
\* cannot be spawned or waited for, or that exits without a status code
check(doc) ==
    {"unavailable"}
    \cup (IF oracle.det
          THEN {IF OracleAccepts(doc) THEN "passed" ELSE "failed"}
          ELSE {"passed", "failed"})

\* the manifest, the registry and the arguments of a run of prune
InitRun ==
    \E entries \in [1..NumDeps -> ManifestEntries],
       maps \in [1..NumDeps -> PruneFeatureMaps] :
        /\ toml_doc = entries
        /\ crates = [d \in 1..NumDeps |->
                        LoadCrate(VersionOf(DepNames[d], maps[d]), entries[d])]
        /\ pre_run = [toml_doc |-> entries,
                      enabled |-> [d \in 1..NumDeps |->
                          EnabledSet(LoadCrate(VersionOf(DepNames[d], maps[d]),
                                               entries[d]))]]
        /\ pc = "start"
        /\ last = NoOp
        /\ ignore_file \in IgnoreFiles
        /\ is_dry_run \in BOOLEAN
        /\ ignored_features = EmptyMap
        /\ dep_i = 1
        /\ enabled_features = <<>>
        /\ id = 0
        /\ to_be_disabled = <<>>

InitPrune == InitRun /\ oracle = AnyOracle /\ display = NoDisplay

\* a run of prune whose check command is a function of the manifest
InitPruneDet ==
    /\ InitRun
    /\ \E needs \in SUBSET FeatureNames :
          oracle = [det |-> TRUE, needs |-> needs, answer |-> "none", calls |-> 0]
    /\ display = NoDisplay

\* the position after the loop over deps moved past dependency d
AfterDep(d) == IF d >= NumDeps THEN "done" ELSE "deps"

\* prune_package lines 31-37: the ignore list is read, or is malformed
StartPackage ==
    /\ pc = "start"
    /\ LET r == get_ignored_features(ignore_file)
       IN IF r.ok
          THEN /\ ignored_features' = r.map
               /\ pc' = IF NumDeps = 0 THEN "done" ELSE "deps"
          ELSE /\ pc' = "error"
               /\ UNCHANGED ignored_features
    /\ UNCHANGED <<crates, toml_doc, last, ignore_file, is_dry_run, dep_i,
                   enabled_features, id, to_be_disabled, pre_run, oracle, display>>

\* prune_package lines 39-63: the candidates of the next dependency
StartDep ==
    /\ pc = "deps"
    /\ LET cands == Candidates(crates[dep_i], ignored_features)
       IN /\ enabled_features' = cands
          /\ to_be_disabled' = <<>>
          /\ IF cands = <<>>
             THEN /\ dep_i' = dep_i + 1
                  /\ pc' = AfterDep(dep_i)
                  /\ id' = 0
             ELSE /\ dep_i' = dep_i
                  /\ pc' = "trial"
                  /\ id' = 1
    /\ oracle' = [oracle EXCEPT !.answer = "none", !.calls = 0]
    /\ UNCHANGED <<crates, toml_doc, last, ignore_file, is_dry_run,
                   ignored_features, pre_run, display>>

\* the candidate is disabled and the entry is not written before check()
TrialDisableUnwritten ==
    /\ pc = "trial"
    /\ crates' = [crates EXCEPT ![dep_i] =
                     disable_feature_usage(crates[dep_i], enabled_features[id])]
    /\ pc' = "check"
    /\ UNCHANGED <<toml_doc, last, prune_vars, display>>

\* prune_package lines 69-72: the candidate is disabled and the entry written
TrialDisable ==
    /\ pc = "trial"
    /\ LET cs == [crates EXCEPT ![dep_i] =
                     disable_feature_usage(crates[dep_i], enabled_features[id])]
       IN /\ crates' = cs
          /\ toml_doc' = write_dep(toml_doc, cs, dep_i)
    /\ pc' = "check"
    /\ UNCHANGED <<last, prune_vars, display>>

\* check() of a build that failed handled as the error of check()
CheckReturnsFailedIsError ==
    /\ pc = "check"
    /\ \E result \in check(toml_doc) \ {"unavailable"} :
          /\ to_be_disabled' = IF result = "passed"
                                THEN Append(to_be_disabled, enabled_features[id])
                                ELSE to_be_disabled
          /\ oracle' = [oracle EXCEPT !.answer = result, !.calls = @ + 1]
          /\ pc' = IF result = "passed" THEN "restore" ELSE "error"
    /\ UNCHANGED <<crates, toml_doc, last, ignore_file, is_dry_run, ignored_features,
                   dep_i, enabled_features, id, pre_run, display>>

\* the error of check() handled as the answer of a build that failed
CheckFailsAsFailed ==
    /\ pc = "check"
    /\ "unavailable" \in check(toml_doc)
    /\ oracle' = [oracle EXCEPT !.answer = "unavailable", !.calls = @ + 1]
    /\ pc' = "restore"
    /\ UNCHANGED <<crates, toml_doc, last, ignore_file, is_dry_run, ignored_features,
                   dep_i, enabled_features, id, to_be_disabled, pre_run, display>>

\* prune_package lines 74-76: check() returns Ok(passed)
CheckReturns ==
    /\ pc = "check"
    /\ \E result \in check(toml_doc) \ {"unavailable"} :
          /\ to_be_disabled' = IF result = "passed"
                                THEN Append(to_be_disabled, enabled_features[id])
                                ELSE to_be_disabled
          /\ oracle' = [oracle EXCEPT !.answer = result, !.calls = @ + 1]
    /\ pc' = "restore"
    /\ UNCHANGED <<crates, toml_doc, last, ignore_file, is_dry_run, ignored_features,
                   dep_i, enabled_features, id, pre_run, display>>

\* prune.rs lines 132-142 and 74: check() fails and the error leaves prune
CheckFails ==
    /\ pc = "check"
    /\ "unavailable" \in check(toml_doc)
    /\ oracle' = [oracle EXCEPT !.answer = "unavailable", !.calls = @ + 1]
    /\ pc' = "error"
    /\ UNCHANGED <<crates, toml_doc, last, ignore_file, is_dry_run, ignored_features,
                   dep_i, enabled_features, id, to_be_disabled, pre_run, display>>

\* prune_package lines 78-96: every candidate is enabled again, the entry
\* written, and the loop moves on
TrialRestore ==
    /\ pc = "restore"
    /\ LET cs == [crates EXCEPT ![dep_i] = EnableAll(crates[dep_i], enabled_features)]
       IN /\ crates' = cs
          /\ toml_doc' = write_dep(toml_doc, cs, dep_i)
    /\ id' = id + 1
    /\ pc' = IF id + 1 > Len(enabled_features) THEN "finish" ELSE "trial"
    /\ UNCHANGED <<last, ignore_file, is_dry_run, ignored_features, dep_i,
                   enabled_features, to_be_disabled, pre_run, oracle, display>>

\* the final removal applied only when a further run of the check command
\* succeeds on the manifest with every accepted candidate disabled
FinishDepValidated ==
    /\ pc = "finish"
    /\ LET cs == [crates EXCEPT ![dep_i] =
                     DisableAll(crates[dep_i], to_be_disabled)]
       IN IF ~is_dry_run /\ to_be_disabled # <<>>
          THEN /\ oracle' = [oracle EXCEPT !.calls = @ + 1]
               /\ IF OracleAccepts(write_dep(toml_doc, cs, dep_i))
                  THEN /\ crates' = cs
                       /\ toml_doc' = write_dep(toml_doc, cs, dep_i)
                  ELSE UNCHANGED <<crates, toml_doc>>
          ELSE UNCHANGED <<crates, toml_doc, oracle>>
    /\ dep_i' = dep_i + 1
    /\ pc' = AfterDep(dep_i)
    /\ UNCHANGED <<last, ignore_file, is_dry_run, ignored_features,
                   enabled_features, id, to_be_disabled, pre_run, display>>

\* prune_package lines 98-128: unless dry-run, the accepted candidates are
\* disabled together and the entry is written once
FinishDep ==
    /\ pc = "finish"
    /\ IF ~is_dry_run /\ to_be_disabled # <<>>
       THEN LET cs == [crates EXCEPT ![dep_i] =
                          DisableAll(crates[dep_i], to_be_disabled)]
            IN /\ crates' = cs
               /\ toml_doc' = write_dep(toml_doc, cs, dep_i)
       ELSE UNCHANGED <<crates, toml_doc>>
    /\ dep_i' = dep_i + 1
    /\ pc' = AfterDep(dep_i)
    /\ UNCHANGED <<last, ignore_file, is_dry_run, ignored_features,
                   enabled_features, id, to_be_disabled, pre_run, oracle, display>>

NextPrune ==
    \/ StartPackage
    \/ StartDep
    \/ TrialDisable
    \/ CheckReturns
    \/ CheckFails
    \/ TrialRestore
    \/ FinishDep

SpecPrune == InitPrune /\ [][NextPrune]_vars

SpecPruneDet == InitPruneDet /\ [][NextPrune]_vars

(***************************************************************************)
(* Claims about the pruner                                                 *)
(***************************************************************************)

\* the baseline E of dependency d: its enabled set as loaded
BaselineOf(d) == pre_run.enabled[d]

\* the names Features.toml protects for dependency d
ProtectedOf(d) ==
    IF ignore_file.exists /\ DepNames[d] \in DOMAIN ignore_file.table
    THEN Range(ignore_file.table[DepNames[d]].items)
    ELSE {}

\* a trial of the current dependency has just been restored (step 3(c))
AfterRestore == (pc = "trial" /\ id > 1) \/ pc = "finish"

\* C7: after the restore of every trial the dependency's enabled set, in
\* memory and as persisted, is the baseline E of before the first trial
C7_RestoreToBaseline ==
    AfterRestore =>
        /\ EnabledSet(crates[dep_i]) = BaselineOf(dep_i)
        /\ PersistedEnabled(dep_i) = BaselineOf(dep_i)

\* C7 holds of the dependencies none of whose enabled features is protected
C7_RestoreUnprotected ==
    (AfterRestore /\ ProtectedOf(dep_i) \cap BaselineOf(dep_i) = {}) =>
        /\ EnabledSet(crates[dep_i]) = BaselineOf(dep_i)
        /\ PersistedEnabled(dep_i) = BaselineOf(dep_i)

\* C8: after a dry run the manifest entry of every dependency is the entry of
\* before the run (the dry run's skip of the final removal is FinishDep's guard)
C8_DryRunKeepsManifest ==
    (pc = "done" /\ is_dry_run) => toml_doc = pre_run.toml_doc

\* C9: the accepted list and the list of features to trial hold only enabled
\* features of the baseline that Features.toml does not protect
C9_AcceptedUnprotected ==
    pc \in {"trial", "check", "restore", "finish"} =>
        /\ Range(to_be_disabled) \subseteq BaselineOf(dep_i) \ ProtectedOf(dep_i)
        /\ Range(enabled_features) \subseteq BaselineOf(dep_i) \ ProtectedOf(dep_i)

\* C9 witness: a dependency with an enabled protected feature has finished its
\* trials with an accepted candidate
C9_Witness ==
    /\ pc = "finish"
    /\ to_be_disabled # <<>>
    /\ ProtectedOf(dep_i) \cap BaselineOf(dep_i) # {}

\* the dependency whose trials ended last, or 0
FinishedDep == IF pc \in {"deps", "done"} THEN dep_i - 1 ELSE 0

\* C10: after the final removal of a run that is no dry run, the persisted
\* enabled set is the baseline without the accepted features and the features
\* that transitively depend on them (the baseline itself when none is accepted)
C10_FinalPersisted ==
    (~is_dry_run /\ FinishedDep >= 1) =>
        PersistedEnabled(FinishedDep)
            = BaselineOf(FinishedDep)
                \ Dependents(crates[FinishedDep], Range(to_be_disabled))

\* C10 holds of the dependencies none of whose enabled features is protected
C10_FinalUnprotected ==
    (/\ ~is_dry_run
     /\ FinishedDep >= 1
     /\ ProtectedOf(FinishedDep) \cap BaselineOf(FinishedDep) = {}) =>
        PersistedEnabled(FinishedDep)
            = BaselineOf(FinishedDep)
                \ Dependents(crates[FinishedDep], Range(to_be_disabled))

\* C12: get_enabled_features returns the enabled names without the default
\* names when uses_default is TRUE, and every enabled name, the enabled default
\* names included, when uses_default is FALSE
C12_EnabledNonDefault ==
    \A d \in DOMAIN crates :
        Range(get_enabled_features(crates[d]))
            = IF uses_default(crates[d])
              THEN EnabledSet(crates[d]) \ Range(crates[d].default_features)
              ELSE EnabledSet(crates[d])

\* C12 witness: in a trial, uses_default is FALSE of the dependency while one
\* of its default names is enabled, and get_enabled_features returns that name
C12_Witness ==
    /\ pc = "check"
    /\ ~uses_default(crates[dep_i])
    /\ Range(crates[dep_i].default_features)
          \cap Range(get_enabled_features(crates[dep_i])) # {}

\* C12 witness of the other case: uses_default is TRUE and an enabled default
\* name is left out of a list that is not empty
C12_WitnessDefault ==
    /\ pc = "check"
    /\ uses_default(crates[dep_i])
    /\ crates[dep_i].default_features # <<>>
    /\ get_enabled_features(crates[dep_i]) # <<>>

\* C13: when check() fails because the command cannot be launched or exits
\* without a status code, the run has ended with the error: no step of prune
\* is possible any more, and every later dependency is as it was loaded, in
\* memory and in the manifest
C13_OracleUnavailable ==
    oracle.answer = "unavailable" =>
        /\ pc = "error"
        /\ ~ENABLED NextPrune
        /\ \A d \in (dep_i + 1)..NumDeps :
              /\ toml_doc[d] = pre_run.toml_doc[d]
              /\ EnabledSet(crates[d]) = BaselineOf(d)

\* C13 witness: check() failed in a trial while a candidate had been accepted,
\* further candidates were to be trialed and a further dependency was to come
C13_Witness ==
    /\ pc = "error"
    /\ oracle.answer = "unavailable"
    /\ to_be_disabled # <<>>
    /\ id < Len(enabled_features)
    /\ dep_i < NumDeps

\* C14: a build that failed is no error. The run is in the error state only
\* after a failure of check() or of reading Features.toml; the candidate of a
\* failed build is not accepted and the run goes on with the restore; the
\* trial loop ends only after every candidate was trialed, whatever was
\* accepted, and the run only after every dependency was visited
C14_BuildFailedContinues ==
    /\ pc = "error" =>
          oracle.answer = "unavailable" \/ ~get_ignored_features(ignore_file).ok
    /\ (pc = "restore" /\ oracle.answer = "failed") =>
          ~Contains(to_be_disabled, enabled_features[id])
    /\ oracle.answer = "failed" => pc # "error"
    /\ pc = "finish" => id = Len(enabled_features) + 1
    /\ pc = "done" => dep_i = NumDeps + 1

\* C14 witness: the first dependency had candidates and none was accepted (no
\* dry run, and its persisted enabled set is still the baseline), and the run
\* is in a trial of the second dependency
C14_Witness ==
    /\ pc = "check"
    /\ dep_i = 2
    /\ ~is_dry_run
    /\ BaselineOf(1) \ ProtectedOf(1) # {}
    /\ PersistedEnabled(1) = BaselineOf(1)

\* C14 witness of the end of the run: the build failed in every trial of the
\* last dependency, which had several candidates, and the run is done
C14_WitnessDone ==
    /\ pc = "done"
    /\ oracle.answer = "failed"
    /\ to_be_disabled = <<>>
    /\ Len(enabled_features) >= 2

\* write_dep has just written the entry of the current dependency
JustWritten == pc \in {"check", "restore", "finish"} \/ (pc = "trial" /\ id > 1)

\* C16: the entry write_dep wrote is the bare version string exactly when
\* uses_default is TRUE and get_enabled_features is empty; otherwise it is a
\* table with the version and the list get_enabled_features; and it holds the
\* default-features flag, with the value false, exactly when uses_default is
\* FALSE
C16_PersistForm ==
    JustWritten =>
        LET c == crates[dep_i]
            e == toml_doc[dep_i]
        IN /\ e.version = c.version.num
           /\ e.bare <=> (uses_default(c) /\ get_enabled_features(c) = <<>>)
           /\ e.bare => e.features = <<>>
           /\ ~e.bare => e.features = get_enabled_features(c)
           /\ e.default_features \in {"absent", "false"}
           /\ e.default_features = "false" <=> ~uses_default(c)

\* C16 witness: a trial wrote a table with the flag and an empty feature list
\* over an entry that had features
C16_Witness ==
    /\ pc = "check"
    /\ ~toml_doc[dep_i].bare
    /\ toml_doc[dep_i].features = <<>>
    /\ toml_doc[dep_i].default_features = "false"
    /\ pre_run.toml_doc[dep_i].features # <<>>

\* C16 witness of the bare string: a trial wrote it over a table
C16_WitnessBare ==
    /\ pc = "check"
    /\ toml_doc[dep_i].bare
    /\ ~pre_run.toml_doc[dep_i].bare

\* C16 witness of a table without the flag: the default names are enabled and
\* left out of the list, which holds another feature
C16_WitnessNoFlag ==
    /\ JustWritten
    /\ ~toml_doc[dep_i].bare
    /\ toml_doc[dep_i].default_features = "absent"
    /\ toml_doc[dep_i].features # <<>>
    /\ crates[dep_i].default_features # <<>>

\* the manifest holds what write_dep writes for the current dependency, and
\* loading it yields the enabled set in memory
PersistedIsMemory ==
    PersistedEnabled(dep_i) = EnabledSet(crates[dep_i])

\* the steps of a trial in their order: the candidate f and its transitive
\* dependents are disabled and the entry written, then check() runs, then
\* the candidates are enabled and the entry written
TrialStep ==
    /\ (pc = "trial" /\ pc' # pc) =>
          /\ pc' = "check"
          /\ EnabledSet(crates'[dep_i])
                = EnabledSet(crates[dep_i])
                    \ Dependents(crates[dep_i], {enabled_features[id]})
          /\ toml_doc'[dep_i] = EntryOf(crates'[dep_i])
    /\ (pc = "check" /\ pc' # pc) =>
          /\ pc' \in {"restore", "error"}
          /\ UNCHANGED <<crates, toml_doc>>
    /\ (pc = "restore" /\ pc' # pc) =>
          /\ pc' \in {"trial", "finish"}
          /\ toml_doc'[dep_i] = EntryOf(crates'[dep_i])

\* C17: in every trial the steps are Disable(f), persist, oracle, re-enable,
\* persist; whenever check() is about to run, the manifest is the state in
\* memory, in which f and its transitive dependents are disabled; whenever a
\* trial starts or the trial loop has ended, the manifest is the state in
\* memory
C17_TrialOrder ==
    /\ [](pc = "check" =>
            /\ PersistedIsMemory
            /\ toml_doc[dep_i] = EntryOf(crates[dep_i])
            /\ EnabledSet(crates[dep_i])
                  \cap Dependents(crates[dep_i], {enabled_features[id]}) = {})
    /\ [](pc \in {"trial", "finish"} => PersistedIsMemory)
    /\ [][TrialStep]_vars

\* C17 witness: check() is about to run in a later trial of a dependency,
\* whose candidate had an enabled dependent
C17_Witness ==
    /\ pc = "check"
    /\ id > 1
    /\ Dependents(crates[dep_i], {enabled_features[id]}) \cap BaselineOf(dep_i)
          # {enabled_features[id]}

\* C18: check() runs once for each candidate of a dependency, in the trial
\* of that candidate, and not again after the final removal; and unless the
\* run is a dry run, every accepted candidate is disabled in the final state
\* in memory and in the manifest, whatever check() would say of that state
C18_OncePerCandidate ==
    /\ pc \in {"trial", "check"} => (oracle.calls = id - 1 /\ id <= Len(enabled_features))
    /\ pc = "restore" => oracle.calls = id
    /\ pc = "finish" => oracle.calls = Len(enabled_features)
    /\ FinishedDep >= 1 =>
          /\ oracle.calls = Len(enabled_features)
          /\ ~is_dry_run =>
                /\ Range(to_be_disabled) \cap EnabledSet(crates[FinishedDep]) = {}
                /\ Range(to_be_disabled) \cap PersistedEnabled(FinishedDep) = {}

\* C18 witness: two candidates of the first dependency were accepted, each in
\* its own trial, the final removal is applied, and the check command fails on
\* the manifest it left
C18_Witness ==
    /\ FinishedDep = 1
    /\ ~is_dry_run
    /\ Len(to_be_disabled) >= 2
    /\ oracle.det
    /\ ~OracleAccepts(toml_doc)

\* the manifest that holds, for the current dependency, the baseline E with
\* Disable(f) applied
BaselineWithout(f) ==
    LET base == Reload(crates[dep_i], pre_run.toml_doc[dep_i])
    IN write_dep(toml_doc, [crates EXCEPT ![dep_i] = disable_feature_usage(base, f)],
                 dep_i)

\* C19: with a check command that is a function of the manifest, at the end
\* of the trials of a dependency a candidate f is accepted if and only if the
\* command succeeds on the baseline E with Disable(f) applied, whatever the
\* place of f among the candidates and the outcomes of the trials before it
C19_AcceptedIffBaseline ==
    (pc = "finish" /\ oracle.det) =>
        \A k \in DOMAIN enabled_features :
            Contains(to_be_disabled, enabled_features[k])
                <=> OracleAccepts(BaselineWithout(enabled_features[k]))

\* C19 holds of the dependencies none of whose enabled features is protected
C19_AcceptedUnprotected ==
    (pc = "finish" /\ oracle.det /\ ProtectedOf(dep_i) \cap BaselineOf(dep_i) = {}) =>
        \A k \in DOMAIN enabled_features :
            Contains(to_be_disabled, enabled_features[k])
                <=> OracleAccepts(BaselineWithout(enabled_features[k]))

\* the names of a feature list, in its order
NamesOf(fs) == [i \in DOMAIN fs |-> fs[i][1]]

\* the list s holds names of the list t only, each once, in the order of t
InOrderOf(s, t) ==
    /\ Range(s) \subseteq Range(t)
    /\ \A i, j \in DOMAIN s :
          i < j => \E k, l \in DOMAIN t : k < l /\ t[k] = s[i] /\ t[l] = s[j]

\* the feature list of c holds every name of the implication map once, the
\* default features first and the others in alphabetical order
FeatureListOrdered(c) ==
    LET names == NamesOf(c.features)
        IsDefault(i) == Contains(c.default_features, names[i])
    IN /\ \A i, j \in DOMAIN names : i < j => names[i] # names[j]
       /\ \A k \in DOMAIN c.features_map :
             {k} \cup Range(c.features_map[k]) \subseteq Range(names)
       /\ \A i, j \in DOMAIN names :
             i < j => /\ IsDefault(j) => IsDefault(i)
                      /\ (~IsDefault(i) /\ ~IsDefault(j))
                            => NameRank(names[i]) < NameRank(names[j])

\* C22: the feature list of every dependency holds each name once, the
\* default features first and the others alphabetically; the candidates are
\* in the order of the feature list and trialed in it, and the accepted
\* features are in the order of the candidates
C22_DisplayOrder ==
    /\ \A d \in DOMAIN crates : FeatureListOrdered(crates[d])
    /\ pc \in {"trial", "check", "restore", "finish"} =>
          /\ InOrderOf(enabled_features, NamesOf(crates[dep_i].features))
          /\ InOrderOf(to_be_disabled, enabled_features)
          /\ Range(to_be_disabled)
                \subseteq {enabled_features[k] : k \in 1..(IF pc = "restore" THEN id ELSE id - 1)}

\* C22 witness: the trials of a dependency have ended with two accepted
\* features; its feature list starts with a default feature that is not the
\* first name of the alphabet, and a name that is both a declared feature and
\* an entry of an implies list is in the list once
C22_Witness ==
    /\ pc = "finish"
    /\ Len(to_be_disabled) >= 2
    /\ crates[dep_i].features[1][1] = "c"
    /\ \E k \in DOMAIN crates[dep_i].features_map :
          Range(crates[dep_i].features_map[k]) \cap DOMAIN crates[dep_i].features_map # {}

\* the protected features of dependency d that the baseline has enabled are
\* enabled in memory and in the manifest
ProtectedEnabled(d) ==
    /\ ProtectedOf(d) \cap BaselineOf(d) \subseteq EnabledSet(crates[d])
    /\ ProtectedOf(d) \cap BaselineOf(d) \subseteq PersistedEnabled(d)

\* C23: every protected feature the baseline has enabled is enabled, in
\* memory and in the manifest, after the restore of every trial and, for
\* every dependency, at the end of the run
C23_ProtectedKept ==
    /\ AfterRestore => ProtectedEnabled(dep_i)
    /\ pc = "done" => \A d \in 1..NumDeps : ProtectedEnabled(d)

\* C23 holds of the protected features that depend on no candidate: the
\* features the baseline has enabled and that no cascade from a candidate
\* reaches stay enabled
C23_ProtectedIndependent ==
    LET Kept(d) == (ProtectedOf(d) \cap BaselineOf(d))
                     \ Dependents(crates[d], BaselineOf(d) \ ProtectedOf(d))
    IN /\ AfterRestore =>
             /\ Kept(dep_i) \subseteq EnabledSet(crates[dep_i])
             /\ Kept(dep_i) \subseteq PersistedEnabled(dep_i)
       /\ pc = "done" =>
             \A d \in 1..NumDeps :
                /\ Kept(d) \subseteq EnabledSet(crates[d])
                /\ Kept(d) \subseteq PersistedEnabled(d)

\* C24: when the run has ended with the error of check() in a trial, the
\* dependency under trial is the baseline E in memory and in the manifest
C24_AbortRestores ==
    (pc = "error" /\ oracle.answer = "unavailable") =>
        /\ EnabledSet(crates[dep_i]) = BaselineOf(dep_i)
        /\ PersistedEnabled(dep_i) = BaselineOf(dep_i)

\* what the run leaves when check() fails in a trial: the candidate of the
\* trial and its transitive dependents are disabled, in memory and in the
\* manifest, and the entry is the one the trial wrote
C24_AbortLeavesTrial ==
    (pc = "error" /\ oracle.answer = "unavailable") =>
        /\ EnabledSet(crates[dep_i])
              \cap Dependents(crates[dep_i], {enabled_features[id]}) = {}
        /\ PersistedEnabled(dep_i) = EnabledSet(crates[dep_i])
        /\ enabled_features[id] \in BaselineOf(dep_i)

(***************************************************************************)
(* rendering: the interactive editor                                       *)
(***************************************************************************)

\* the characters typed into the search
SearchChars == {"a", "1"}

\* the characters of a name
Letters(name) ==
    CASE name = "D1" -> <<"D", "1">>
      [] name = "D2" -> <<"D", "2">>
      [] OTHER -> <<name>>

\* the characters of text occur in letters, in their order
RECURSIVE Matches(_, _)
Matches(letters, text) ==
    IF text = <<>> THEN TRUE
    ELSE IF letters = <<>> THEN FALSE
    ELSE IF Head(letters) = Head(text) THEN Matches(Tail(letters), Tail(text))
    ELSE Matches(Tail(letters), text)

\* the names of a list that match the search text, in the order of the list
RECURSIVE FilteredView(_, _)
FilteredView(names, text) ==
    IF names = <<>> THEN <<>>
    ELSE (IF Matches(Letters(Head(names)), text) THEN <<Head(names)>> ELSE <<>>)
         \o FilteredView(Tail(names), text)

\* document.get_deps_filtered_view(package, text)
get_deps_filtered_view(text) == FilteredView(DepNames, text)

\* dep.get_features_filtered_view(text)
get_features_filtered_view(c, text) == FilteredView(NamesOf(c.features), text)

\* dep.has_features()
has_features(c) == c.features # <<>>

\* document.get_dep_index(package, name)
DepIndex(name) == CHOOSE d \in 1..NumDeps : DepNames[d] = name

\* shift without the wrap: the index moves by the shift and stops at 0
ShiftUnwrapped(selector, by) ==
    IF selector.data = <<>> THEN [selector EXCEPT !.selected_index = 0]
    ELSE [selector EXCEPT !.selected_index =
             IF @ + by < 0 THEN 0 ELSE @ + by]

\* ScrollSelector::shift
shift(selector, by) ==
    IF selector.data = <<>> THEN [selector EXCEPT !.selected_index = 0]
    ELSE [selector EXCEPT !.selected_index =
             (@ + Len(selector.data) + by) % Len(selector.data)]

\* ScrollSelector::has_data
has_data(selector) == selector.data # <<>>

\* ScrollSelector::get_selected is Some
HasSelected(selector) == selector.selected_index < Len(selector.data)

\* ScrollSelector::get_selected, when it is Some
get_selected(selector) == selector.data[selector.selected_index + 1]

\* the outcome of a handler: the display, the crates and the manifest it
\* leaves, and Running, Finished or the Err it returns
Outcome(disp, cs, doc, status) ==
    [display |-> disp, crates |-> cs, toml_doc |-> doc, status |-> status]

\* Display::new
DisplayNew(is_workspace) ==
    [state |-> IF is_workspace THEN "Package" ELSE "Dep",
     is_workspace |-> is_workspace,
     package_selector |-> [selected_index |-> 0, data |-> <<"P1">>],
     dep_selector |-> [selected_index |-> 0, data |-> get_deps_filtered_view(<<>>)],
     feature_selector |-> EmptySelector,
     search_text |-> <<>>]

\* Display::select_selected_package
select_selected_package(disp) ==
    [disp EXCEPT !.state = "Dep",
                 !.dep_selector.data = get_deps_filtered_view(<<>>)]

\* Display::select_selected_dep, the selected dependency being Some
select_selected_dep(disp, cs) ==
    [disp EXCEPT !.state = "Feature",
                 !.feature_selector.data =
                     get_features_filtered_view(
                         cs[DepIndex(get_selected(disp.dep_selector))],
                         disp.search_text)]

\* Display::update_selected_data: the display, or the Err of get_selected
update_selected_data(disp, cs) ==
    CASE disp.state = "Dep" ->
           [ok |-> TRUE,
            display |-> [disp EXCEPT !.dep_selector.data =
                                        get_deps_filtered_view(disp.search_text)]]
      [] disp.state = "Feature" ->
           IF HasSelected(disp.dep_selector)
           THEN [ok |-> TRUE,
                 display |-> [disp EXCEPT !.feature_selector.data =
                                 get_features_filtered_view(
                                     cs[DepIndex(get_selected(disp.dep_selector))],
                                     disp.search_text)]]
           ELSE [ok |-> FALSE, display |-> disp]
      [] OTHER -> [ok |-> TRUE, display |-> disp]

\* Display::move_back
move_back(disp, cs, doc) ==
    CASE disp.state = "Package" -> Outcome(disp, cs, doc, "Finished")
      [] disp.state = "Dep" ->
           IF ~disp.is_workspace THEN Outcome(disp, cs, doc, "Finished")
           ELSE Outcome([disp EXCEPT !.search_text = <<>>, !.state = "Package"],
                        cs, doc, "Running")
      [] OTHER ->
           LET d1 == [disp EXCEPT !.search_text = <<>>, !.state = "Dep"]
               r == update_selected_data(d1, cs)
           IN Outcome(r.display, cs, doc, IF r.ok THEN "Running" ELSE "Err")

\* input_event, the arms of ArrowUp (by = -1) and ArrowDown (by = 1)
Move(disp, cs, doc, by) ==
    CASE disp.state = "Package" ->
           Outcome([disp EXCEPT !.package_selector = shift(@, by)], cs, doc, "Running")
      [] disp.state = "Dep" ->
           Outcome([disp EXCEPT !.dep_selector = shift(@, by)], cs, doc, "Running")
      [] OTHER ->
           IF has_data(disp.feature_selector)
           THEN Outcome([disp EXCEPT !.feature_selector = shift(@, by)],
                        cs, doc, "Running")
           ELSE Outcome(disp, cs, doc, "Running")

\* the toggle of the Feature view without the write of the manifest
ToggleSelectedUnwritten(disp, cs, doc) ==
    IF ~has_data(disp.feature_selector) THEN Outcome(disp, cs, doc, "Running")
    ELSE IF ~HasSelected(disp.dep_selector) \/ ~HasSelected(disp.feature_selector)
         THEN Outcome(disp, cs, doc, "Err")
    ELSE LET d == DepIndex(get_selected(disp.dep_selector))
             index == get_index(cs[d], get_selected(disp.feature_selector))
         IN Outcome(disp, [cs EXCEPT ![d] = toggle_feature_usage(cs[d], index)],
                    doc, "Running")

\* input_event, the arm of Enter, ArrowRight and ' ' in the Feature view:
\* the selected feature is toggled and the dependency written
ToggleSelected(disp, cs, doc) ==
    IF ~has_data(disp.feature_selector) THEN Outcome(disp, cs, doc, "Running")
    ELSE IF ~HasSelected(disp.dep_selector) \/ ~HasSelected(disp.feature_selector)
         THEN Outcome(disp, cs, doc, "Err")
    ELSE LET d == DepIndex(get_selected(disp.dep_selector))
             index == get_index(cs[d], get_selected(disp.feature_selector))
             cs1 == [cs EXCEPT ![d] = toggle_feature_usage(cs[d], index)]
         IN Outcome(disp, cs1, write_dep(doc, cs1, d), "Running")

\* input_event, the arms of Enter, ArrowRight and ' '
Select(disp, cs, doc) ==
    CASE disp.state = "Package" ->
           LET d1 == select_selected_package(disp)
           IN Outcome([d1 EXCEPT !.dep_selector = shift(@, 0)], cs, doc, "Running")
      [] disp.state = "Dep" ->
           IF ~has_data(disp.dep_selector) THEN Outcome(disp, cs, doc, "Running")
           ELSE LET d1 == [disp EXCEPT !.search_text = <<>>]
                IN IF ~HasSelected(d1.dep_selector) THEN Outcome(d1, cs, doc, "Err")
                   ELSE IF has_features(cs[DepIndex(get_selected(d1.dep_selector))])
                        THEN LET d2 == select_selected_dep(d1, cs)
                             IN Outcome([d2 EXCEPT !.feature_selector = shift(@, 0)],
                                        cs, doc, "Running")
                        ELSE Outcome(d1, cs, doc, "Running")
      [] OTHER -> ToggleSelected(disp, cs, doc)

\* input_event, the arm of a character that is not ' '
Search(disp, cs, doc, char) ==
    IF disp.state = "Package" THEN Outcome(disp, cs, doc, "Running")
    ELSE LET d1 == [disp EXCEPT !.search_text = Append(@, char)]
             r == update_selected_data(d1, cs)
         IN IF ~r.ok THEN Outcome(r.display, cs, doc, "Err")
            ELSE Outcome(IF r.display.state = "Dep"
                         THEN [r.display EXCEPT !.dep_selector = shift(@, 0)]
                         ELSE [r.display EXCEPT !.feature_selector = shift(@, 0)],
                         cs, doc, "Running")

\* input_event, the arm of Backspace
Backspace(disp, cs, doc) ==
    IF disp.state = "Package" THEN Outcome(disp, cs, doc, "Running")
    ELSE LET d1 == [disp EXCEPT !.search_text =
                       IF @ = <<>> THEN @ ELSE SubSeq(@, 1, Len(@) - 1)]
             r == update_selected_data(d1, cs)
         IN Outcome(r.display, cs, doc, IF r.ok THEN "Running" ELSE "Err")

\* a registry version without features and without optional dependencies
Featureless(dep_name) ==
    [name |-> dep_name, num |-> "1.0.0", features |-> EmptyMap, optional |-> <<>>]

\* the editor on a manifest of two dependencies: the first with features,
\* the second with none
InitEditor ==
    \E entry \in ManifestEntries, map \in PruneFeatureMaps, is_workspace \in BOOLEAN :
        LET entries == <<entry, BareEntry("1.0.0")>>
            cs == <<LoadCrate(VersionOf(DepNames[1], map), entry),
                    LoadCrate(Featureless(DepNames[2]), BareEntry("1.0.0"))>>
        IN /\ toml_doc = entries
           /\ crates = cs
           /\ pre_run = [toml_doc |-> entries,
                         enabled |-> [d \in 1..NumDeps |-> EnabledSet(cs[d])]]
           /\ pc = "editing"
           /\ last = NoOp
           /\ ignore_file = [exists |-> FALSE, table |-> EmptyMap]
           /\ is_dry_run = FALSE
           /\ ignored_features = EmptyMap
           /\ dep_i = 0
           /\ enabled_features = <<>>
           /\ id = 0
           /\ to_be_disabled = <<>>
           /\ oracle = AnyOracle
           /\ display = DisplayNew(is_workspace)

\* Display::start, one turn of the loop: the event is handled, and the loop
\* goes on, ends, or returns the error
Handled(outcome) ==
    /\ pc = "editing"
    /\ display' = outcome.display
    /\ crates' = outcome.crates
    /\ toml_doc' = outcome.toml_doc
    /\ pc' = CASE outcome.status = "Running" -> "editing"
               [] outcome.status = "Finished" -> "finished"
               [] OTHER -> "error"
    /\ UNCHANGED <<last, ignore_file, is_dry_run, ignored_features, dep_i,
                   enabled_features, id, to_be_disabled, pre_run, oracle>>

KeyUp == Handled(Move(display, crates, toml_doc, -1))

KeyDown == Handled(Move(display, crates, toml_doc, 1))

KeySelect == Handled(Select(display, crates, toml_doc))

KeyChar ==
    /\ Len(display.search_text) < MaxSearch
    /\ \E char \in SearchChars : Handled(Search(display, crates, toml_doc, char))

KeyBackspace == Handled(Backspace(display, crates, toml_doc))

KeyBack == Handled(move_back(display, crates, toml_doc))

NextEditor ==
    \/ KeyUp
    \/ KeyDown
    \/ KeySelect
    \/ KeyChar
    \/ KeyBackspace
    \/ KeyBack

SpecEditor == InitEditor /\ [][NextEditor]_vars

\* every selector's index is an index of its data
IndexInData ==
    \A selector \in {display.package_selector, display.dep_selector,
                     display.feature_selector} :
        has_data(selector) => HasSelected(selector)

\* the enabled set the manifest entry of dependency d yields when the
\* dependency is constructed from it is the enabled set in memory
PersistedAll ==
    \A d \in 1..NumDeps :
        EnabledSet(Reconstructed(crates[d], toml_doc[d])) = EnabledSet(crates[d])

\* a step of the editor that changes a graph or the manifest is the toggle
\* of the Feature view: it leaves the display alone, changes the flags of
\* the selected dependency only and writes that dependency in the same step
OnlyToggleWrites ==
    (crates' # crates \/ toml_doc' # toml_doc) =>
        /\ display.state = "Feature"
        /\ has_data(display.feature_selector)
        /\ display' = display
        /\ LET d == DepIndex(get_selected(display.dep_selector))
           IN /\ \A e \in 1..NumDeps : e # d => crates'[e] = crates[e]
              /\ toml_doc' = write_dep(toml_doc, crates', d)

\* C27: after every handled key event the manifest entry of every
\* dependency denotes the enabled set the dependency has in memory; the
\* toggle of the Feature view writes the entry in the same event, and the
\* keys of movement, search, backspace and back change no enabled flag and
\* no entry
C27_PersistedAfterKey ==
    /\ []PersistedAll
    /\ [][OnlyToggleWrites]_vars
    /\ [][(KeyUp \/ KeyDown \/ KeyChar \/ KeyBackspace \/ KeyBack)
            => UNCHANGED <<crates, toml_doc>>]_vars

\* C27 witness: a toggle in the Feature view has changed the enabled set of
\* the first dependency and its entry in the manifest
C27_Witness ==
    /\ pc = "editing"
    /\ display.state = "Feature"
    /\ EnabledSet(crates[1]) # pre_run.enabled[1]
    /\ toml_doc[1] # pre_run.toml_doc[1]
    /\ Cardinality(EnabledSet(crates[1])) >= 2

\* C27 witness of the other keys: a search typed in the Feature view after
\* a toggle
C27_WitnessSearch ==
    /\ display.state = "Feature"
    /\ display.search_text # <<>>
    /\ EnabledSet(crates[1]) # pre_run.enabled[1]

\* no key of the editor makes get_selected return None
NoEditorError == pc # "error"

\* a selector without data has the index 0
EmptyAtZero ==
    \A selector \in {display.package_selector, display.dep_selector,
                     display.feature_selector} :
        ~has_data(selector) => selector.selected_index = 0

\* the selectors of the display
Selectors ==
    {display.package_selector, display.dep_selector, display.feature_selector}

C28_WitnessEmpty ==
    /\ pc = "editing"
    /\ display.state = "Feature"
    /\ display.search_text # <<>>
    /\ ~has_data(display.feature_selector)
    /\ display.dep_selector.selected_index = 0

\* C28 witness of the search that shortens the data of the Dep view
C28_WitnessFiltered ==
    /\ display.state = "Dep"
    /\ display.search_text # <<>>
    /\ Len(display.dep_selector.data) = 1

====
